---------------------------- MODULE Spec2Model ----------------------------
(***************************************************************************)
(* DepositBox (components/payment/DepositBox.tsx): the deposit form of the *)
(* wallet.  The model holds the component's React state, the props and the *)
(* payment context it was mounted with, the handleSubmit invocations that  *)
(* are suspended at `await deposit(...)`, the reset timers that were       *)
(* scheduled with setTimeout, and the external calls made by the last      *)
(* step (deposit, onSuccess, setTimeout, onClose).                         *)
(*                                                                         *)
(* Strings that the code inspects character by character (the amount text  *)
(* and the raw input of the amount field) are sequences of one-character   *)
(* strings.  Numbers produced by parseFloat are exact decimals m / 10^e in *)
(* lowest terms, or NaN.                                                   *)
(***************************************************************************)
EXTENDS Integers, Sequences, FiniteSets, TLC

VARIABLES
    paymentMethods,    \* usePayment().paymentMethods: sequence of [id, isDefault]
    onSuccess,         \* prop: "none" (not provided), "returns" or "throws"
    onClose,           \* prop: TRUE iff a close callback is provided
    amount,            \* useState<string>('')
    selectedMethodId,  \* useState<string>('')
    isProcessing,      \* useState(false)
    error,             \* useState<string | null>(null)
    success,           \* useState<boolean>(false)
    mounted,           \* the component is still in the tree
    pending,           \* numAmount of each handleSubmit suspended at the await
    timers,            \* number of scheduled reset callbacks not yet run
    calls,             \* the external calls made by the last step, in order
    userSelected       \* a payment method entry has been clicked since mount

vars == <<paymentMethods, onSuccess, onClose, amount, selectedMethodId,
          isProcessing, error, success, mounted, pending, timers, calls,
          userSelected>>

---------------------------------------------------------------------------
(* Bounds of the model. *)

\* Most handleSubmit invocations plus reset timers outstanding at once.
MaxOutstanding == 2

\* Longest raw input string of the amount field in SpecAmount.
MaxRawLen == 4

---------------------------------------------------------------------------
(* Strings and numbers. *)

Digits == <<"0", "1", "2", "3", "4", "5", "6", "7", "8", "9">>

IsDigit(c) == \E i \in 1..Len(Digits) : Digits[i] = c

DigitVal(c) == (CHOOSE i \in 1..Len(Digits) : Digits[i] = c) - 1

\* value.replace(/[^0-9.]/g, '')
RECURSIVE StripNonNumeric(_)
StripNonNumeric(s) ==
    IF s = <<>> THEN <<>>
    ELSE IF IsDigit(Head(s)) \/ Head(s) = "."
         THEN <<Head(s)>> \o StripNonNumeric(Tail(s))
         ELSE StripNonNumeric(Tail(s))

\* value.split('.'): the pieces between the decimal points (never empty).
RECURSIVE SplitDot(_)
SplitDot(s) ==
    IF \A i \in 1..Len(s) : s[i] # "." THEN <<s>>
    ELSE LET k == CHOOSE i \in 1..Len(s) :
                      s[i] = "." /\ \A j \in 1..(i - 1) : s[j] # "."
         IN  <<SubSeq(s, 1, k - 1)>> \o SplitDot(SubSeq(s, k + 1, Len(s)))

\* The longest prefix of s made of digits.
RECURSIVE DigitPrefix(_)
DigitPrefix(s) ==
    IF s # <<>> /\ IsDigit(Head(s))
    THEN <<Head(s)>> \o DigitPrefix(Tail(s))
    ELSE <<>>

RECURSIVE DigitsValue(_)
DigitsValue(ds) ==
    IF ds = <<>> THEN 0
    ELSE DigitsValue(SubSeq(ds, 1, Len(ds) - 1)) * 10 + DigitVal(ds[Len(ds)])

NaN == [nan |-> TRUE, m |-> 0, e |-> 0]

\* The number m / 10^e in lowest terms.
RECURSIVE Decimal(_, _)
Decimal(m, e) ==
    IF e > 0 /\ m % 10 = 0 THEN Decimal(m \div 10, e - 1)
    ELSE [nan |-> FALSE, m |-> m, e |-> e]

\* parseFloat on a text without sign, exponent or white space: the longest
\* prefix digits [. digits] or . digits; NaN when that prefix has no digit.
parseFloat(s) ==
    LET ip   == DigitPrefix(s)
        rest == SubSeq(s, Len(ip) + 1, Len(s))
        fp   == IF rest # <<>> /\ Head(rest) = "."
                THEN DigitPrefix(Tail(rest)) ELSE <<>>
    IN  IF ip = <<>> /\ fp = <<>> THEN NaN
        ELSE Decimal(DigitsValue(ip \o fp), Len(fp))

isNaN(n) == n.nan

\* n <= 0 for a parsed number: false for NaN, as every comparison with NaN.
LeqZero(n) == ~n.nan /\ n.m <= 0

---------------------------------------------------------------------------
(* Environment: context, props, localisation, deposit failures. *)

Null == "null"

\* t(key) of the language context.
t(key) == "t:" \o key

Method(id, isDefault) == [id |-> id, isDefault |-> isDefault]

\* The method lists the payment context may supply at mount.
MethodLists ==
    { <<>>,
      <<Method("m1", FALSE), Method("m2", TRUE)>>,
      <<Method("m1", FALSE), Method("m2", FALSE)>> }

MethodIds == {paymentMethods[i].id : i \in 1..Len(paymentMethods)}

\* What a rejected deposit is rejected with: an error and its message.
Failures ==
    { [hasMessage |-> TRUE,  message |-> "Insufficient funds", nullish |-> FALSE],
      [hasMessage |-> TRUE,  message |-> "", nullish |-> FALSE],
      [hasMessage |-> FALSE, message |-> "", nullish |-> FALSE],
      [hasMessage |-> FALSE, message |-> "", nullish |-> TRUE] }

\* The error a throwing success callback throws.
CallbackFailure ==
    [hasMessage |-> TRUE, message |-> "onSuccess failed", nullish |-> FALSE]

\* Values of the amount field's change event in Spec.
RawSamples ==
    { <<>>, <<"0">>, <<".">>, <<"1">>, <<"$", "1">>,
      <<"2", "5", ".", "5">>, <<"1", ".", "2", ".", "3">>,
      <<"2", "5", ".", "5", "0", "1">>,
      <<"1", ".", "2">>, <<"1", "2", ".", "3", "4">>,
      <<"1", "2", ".", "3", "4", "5">> }

\* The characters of the raw inputs of SpecAmount.
Chars == {"0", "1", ".", "a"}

RECURSIVE StringsUpTo(_)
StringsUpTo(n) ==
    IF n = 0 THEN {<<>>}
    ELSE LET shorter == StringsUpTo(n - 1)
         IN  shorter \cup {Append(s, c) : s \in shorter, c \in Chars}

ResetDelayMs == 2000

\* One external call: the function, its numeric argument (NaN when it has
\* none), its other argument ("" when it has none) and, for setTimeout, the
\* delay.
Call(fn, num, arg, ms) == [fn |-> fn, num |-> num, arg |-> arg, ms |-> ms]

props == <<paymentMethods, onSuccess, onClose>>

---------------------------------------------------------------------------
(* Mount. *)

\* The first method of the list instead of the one flagged as default.
defaultMethod_First(methods) ==
    IF methods # <<>> THEN methods[1].id ELSE ""

\* paymentMethods.find(m => m.isDefault), "" standing for undefined.
defaultMethod(methods) ==
    IF \E i \in 1..Len(methods) : methods[i].isDefault
    THEN methods[CHOOSE i \in 1..Len(methods) :
                     methods[i].isDefault
                     /\ \A j \in 1..(i - 1) : ~methods[j].isDefault].id
    ELSE ""

\* The state after the first render: the useState initialisers, and the
\* render-phase setSelectedMethodId(defaultMethod.id) of the sixth useState.
Init ==
    /\ paymentMethods \in MethodLists
    /\ onSuccess \in {"none", "returns", "throws"}
    /\ onClose \in BOOLEAN
    /\ amount = <<>>
    /\ selectedMethodId = defaultMethod(paymentMethods)
    /\ isProcessing = FALSE
    /\ error = Null
    /\ success = FALSE
    /\ mounted = TRUE
    /\ pending = <<>>
    /\ timers = 0
    /\ calls = <<>>
    /\ userSelected = FALSE

---------------------------------------------------------------------------
(* The amount field. *)

\* handleAmountChange without the limit of two decimal places.
AmountAfterChange_NoDecimalLimit(cur, raw) ==
    LET value == StripNonNumeric(raw)
        parts == SplitDot(value)
    IN  IF Len(parts) > 2 THEN cur ELSE value

\* handleAmountChange without the test for several decimal points.
AmountAfterChange_NoPointLimit(cur, raw) ==
    LET value == StripNonNumeric(raw)
        parts == SplitDot(value)
    IN  IF Len(parts) > 1 /\ parts[2] # <<>> /\ Len(parts[2]) > 2 THEN cur
        ELSE value

\* The amount text after handleAmountChange on a change event whose input
\* value is raw, cur being the amount text before it.
AmountAfterChange(cur, raw) ==
    LET value == StripNonNumeric(raw)
        parts == SplitDot(value)
    IN  IF Len(parts) > 2 THEN cur
        ELSE IF Len(parts) > 1 /\ parts[2] # <<>> /\ Len(parts[2]) > 2 THEN cur
        ELSE value

\* The amount input is rendered in the form view and disabled while
\* processing.
AmountInputEnabled == mounted /\ ~success /\ ~isProcessing

handleAmountChange(raw) ==
    /\ AmountInputEnabled
    /\ amount' = AmountAfterChange(amount, raw)
    /\ calls' = <<>>
    /\ UNCHANGED <<props, selectedMethodId, isProcessing, error, success,
                   mounted, pending, timers, userSelected>>

---------------------------------------------------------------------------
(* The payment method list. *)

\* onClick of a method entry: the list is rendered in the form view when it
\* is not empty.
selectMethod(id) ==
    /\ mounted /\ ~success
    /\ id \in MethodIds
    /\ selectedMethodId' = id
    /\ userSelected' = TRUE
    /\ calls' = <<>>
    /\ UNCHANGED <<props, amount, isProcessing, error, success, mounted,
                   pending, timers>>

---------------------------------------------------------------------------
(* Submit. *)

\* The validations with the amount test of the submit button, which lets NaN
\* through.
SubmitOutcome_NoNaNTest(amt, sel, methods) ==
    LET numAmount == parseFloat(amt)
    IN  IF LeqZero(numAmount) THEN "invalid_amount"
        ELSE IF sel = "" /\ Len(methods) > 0 THEN "select_payment_method"
        ELSE "deposit"

\* The validations with numAmount < 0 in place of numAmount <= 0.
SubmitOutcome_ZeroAccepted(amt, sel, methods) ==
    LET numAmount == parseFloat(amt)
    IN  IF isNaN(numAmount) \/ (~numAmount.nan /\ numAmount.m < 0)
        THEN "invalid_amount"
        ELSE IF sel = "" /\ Len(methods) > 0 THEN "select_payment_method"
        ELSE "deposit"

\* The validations without the payment method test.
SubmitOutcome_NoMethodTest(amt, sel, methods) ==
    LET numAmount == parseFloat(amt)
    IN  IF isNaN(numAmount) \/ LeqZero(numAmount) THEN "invalid_amount"
        ELSE "deposit"

\* The validations of handleSubmit: the key of the error it sets, or
\* "deposit" when it goes on to call deposit.
SubmitOutcome(amt, sel, methods) ==
    LET numAmount == parseFloat(amt)
    IN  IF isNaN(numAmount) \/ LeqZero(numAmount) THEN "invalid_amount"
        ELSE IF sel = "" /\ Len(methods) > 0 THEN "select_payment_method"
        ELSE "deposit"

\* No finally block: the flag keeps its value.
ProcessingAfterSettle_Kept == isProcessing

\* finally { setIsProcessing(false) }
ProcessingAfterSettle == FALSE

\* The form, and with it the submit handler, is rendered in the form view.
FormRendered == mounted /\ ~success

\* handleSubmit up to the return of a failed validation, whose finally block
\* clears the processing flag, or to the await.
handleSubmit ==
    /\ FormRendered
    /\ LET numAmount == parseFloat(amount)
           outcome   == SubmitOutcome(amount, selectedMethodId, paymentMethods)
       IN  IF outcome = "deposit"
           THEN /\ Len(pending) + timers < MaxOutstanding
                /\ error' = Null
                /\ isProcessing' = TRUE
                /\ pending' = Append(pending, numAmount)
                /\ calls' = <<Call("deposit", numAmount, selectedMethodId, 0)>>
           ELSE /\ error' = t(outcome)
                /\ isProcessing' = ProcessingAfterSettle
                /\ calls' = <<>>
                /\ UNCHANGED pending
    /\ UNCHANGED <<props, amount, selectedMethodId, success, mounted, timers,
                   userSelected>>

\* disabled={isProcessing || !amount || parseFloat(amount) <= 0}
SubmitDisabled(processing, amt) ==
    processing \/ amt = <<>> \/ LeqZero(parseFloat(amt))

\* A click on the submit button (or Enter in the amount field, which submits
\* through the form's default button).
SubmitClick ==
    /\ ~SubmitDisabled(isProcessing, amount)
    /\ handleSubmit

\* A submit event dispatched at the form itself.
SubmitEvent == handleSubmit

---------------------------------------------------------------------------
(* Settlement of a deposit: handleSubmit from the await to its end. *)

RemoveAt(s, i) == SubSeq(s, 1, i - 1) \o SubSeq(s, i + 1, Len(s))

\* error.message || t('deposit_error')
ErrorMessage(failure) ==
    IF failure.hasMessage /\ failure.message # "" THEN failure.message
    ELSE t("deposit_error")

\* Reading error.message of undefined or null raises a TypeError inside the
\* catch block: setError is not called.
MessageReadThrows(failure) == failure.nullish

\* The success path reading the amount text again instead of numAmount.
SuccessCalls_Reparsed(numAmount) ==
    (IF onSuccess = "none" THEN <<>>
     ELSE <<Call("onSuccess", parseFloat(amount), "", 0)>>)
    \o (IF onSuccess = "throws" THEN <<>>
        ELSE <<Call("setTimeout", NaN, "", ResetDelayMs)>>)

\* The external calls of the success path for the captured numAmount.
SuccessCalls(numAmount) ==
    (IF onSuccess = "none" THEN <<>>
     ELSE <<Call("onSuccess", numAmount, "", 0)>>)
    \o (IF onSuccess = "throws" THEN <<>>
        ELSE <<Call("setTimeout", NaN, "", ResetDelayMs)>>)

\* The deposit of the i-th suspended handleSubmit resolves.  The external
\* calls are made whether or not the component is still mounted; the state
\* setters have no effect on a component that was discarded.
DepositResolves(i) ==
    /\ i \in 1..Len(pending)
    /\ calls' = SuccessCalls(pending[i])
    /\ timers' = IF onSuccess = "throws" THEN timers ELSE timers + 1
    /\ IF mounted
       THEN /\ success' = TRUE
            /\ error' = IF onSuccess = "throws"
                        THEN ErrorMessage(CallbackFailure) ELSE error
            /\ isProcessing' = ProcessingAfterSettle
       ELSE UNCHANGED <<success, error, isProcessing>>
    /\ pending' = RemoveAt(pending, i)
    /\ UNCHANGED <<props, amount, selectedMethodId, mounted, userSelected>>

\* The deposit of the i-th suspended handleSubmit rejects with failure.
\* The setters have no effect on a component that was discarded.
DepositRejects(i, failure) ==
    /\ i \in 1..Len(pending)
    /\ IF mounted
       THEN /\ error' = IF MessageReadThrows(failure) THEN error
                        ELSE ErrorMessage(failure)
            /\ isProcessing' = ProcessingAfterSettle
       ELSE UNCHANGED <<error, isProcessing>>
    /\ pending' = RemoveAt(pending, i)
    /\ calls' = <<>>
    /\ UNCHANGED <<props, amount, selectedMethodId, success, mounted, timers,
                   userSelected>>

\* The reset callback, were it cancelled when the component is discarded.
TimerFires_CancelledOnUnmount ==
    /\ mounted
    /\ timers > 0
    /\ timers' = timers - 1
    /\ amount' = <<>>
    /\ success' = FALSE
    /\ calls' = IF onClose THEN <<Call("onClose", NaN, "", 0)>> ELSE <<>>
    /\ UNCHANGED <<props, selectedMethodId, isProcessing, error, mounted,
                   pending, userSelected>>

\* A reset callback scheduled by the success path runs.  It runs after
\* teardown too and calls onClose, but setAmount and setSuccess have no
\* effect on a component that was discarded.
TimerFires ==
    /\ timers > 0
    /\ timers' = timers - 1
    /\ IF mounted
       THEN amount' = <<>> /\ success' = FALSE
       ELSE UNCHANGED <<amount, success>>
    /\ calls' = IF onClose THEN <<Call("onClose", NaN, "", 0)>> ELSE <<>>
    /\ UNCHANGED <<props, selectedMethodId, isProcessing, error, mounted,
                   pending, userSelected>>

---------------------------------------------------------------------------
(* The close button and teardown. *)

\* onClick={onClose}: the button is rendered when onClose is provided, and
\* passes the click event.
CloseClick ==
    /\ mounted /\ onClose
    /\ calls' = <<Call("onClose", NaN, "click", 0)>>
    /\ UNCHANGED <<props, amount, selectedMethodId, isProcessing, error,
                   success, mounted, pending, timers, userSelected>>

\* The container removes the component from the tree.
Unmount ==
    /\ mounted
    /\ mounted' = FALSE
    /\ calls' = <<>>
    /\ UNCHANGED <<props, amount, selectedMethodId, isProcessing, error,
                   success, pending, timers, userSelected>>

---------------------------------------------------------------------------
(* Specifications. *)

Next ==
    \/ \E raw \in RawSamples : handleAmountChange(raw)
    \/ \E id \in MethodIds : selectMethod(id)
    \/ SubmitClick
    \/ SubmitEvent
    \/ \E i \in 1..Len(pending) : DepositResolves(i)
    \/ \E i \in 1..Len(pending), failure \in Failures : DepositRejects(i, failure)
    \/ TimerFires
    \/ CloseClick
    \/ Unmount

Spec == Init /\ [][Next]_vars

\* The event loop runs every scheduled timer callback.
FairSpec == Spec /\ WF_vars(TimerFires)

\* Some suspended handleSubmit is resumed: its deposit settles.
Settles ==
    \E i \in 1..Len(pending) :
        \/ DepositResolves(i)
        \/ \E failure \in Failures : DepositRejects(i, failure)

\* Every scheduled timer callback runs and every dispatched deposit settles.
FairSettleSpec == FairSpec /\ WF_vars(Settles)

\* The amount field under every raw input of up to MaxRawLen characters,
\* through deposits made with the submit button and their resets.
RawInputs == StringsUpTo(MaxRawLen)

InitAmount ==
    /\ Init
    /\ paymentMethods = <<>>
    /\ onSuccess = "returns"
    /\ onClose

NextAmount ==
    \/ \E raw \in RawInputs : handleAmountChange(raw)
    \/ SubmitClick
    \/ \E i \in 1..Len(pending) : DepositResolves(i)
    \/ TimerFires

SpecAmount == InitAmount /\ [][NextAmount]_vars

---------------------------------------------------------------------------
(* What the claims speak of. *)

\* The numeric arguments of the calls of fn among cs, in order.
NumsOf(cs, fn) ==
    LET sel == SelectSeq(cs, LAMBDA c : c.fn = fn)
    IN  [i \in 1..Len(sel) |-> sel[i].num]

Invokes(cs, fn) == \E i \in 1..Len(cs) : cs[i].fn = fn

\* The amount text parses to a number greater than zero.
ParsesPositive(amt) ==
    LET n == parseFloat(amt) IN ~n.nan /\ n.m > 0

InvalidAmount == t("invalid_amount")
MethodRequired == t("select_payment_method")
DepositFailed == t("deposit_error")

\* A method flagged as default exists / has this id.
HasDefault == \E i \in 1..Len(paymentMethods) : paymentMethods[i].isDefault
IsDefaultId(id) ==
    \E i \in 1..Len(paymentMethods) :
        paymentMethods[i].isDefault /\ paymentMethods[i].id = id

---------------------------------------------------------------------------
(* C1 *)

\* C1: a step in which a deposit resolves sets the success flag and invokes
\* the success callback, when one is provided, exactly once with the
\* numAmount its submit parsed and passed to deposit; no other step invokes
\* the success callback.
C1_SuccessCallbackOncePerResolve ==
    [][ /\ \A i \in 1..Len(pending) :
             DepositResolves(i) =>
                 /\ success'
                 /\ NumsOf(calls', "onSuccess") =
                        IF onSuccess = "none" THEN <<>> ELSE <<pending[i]>>
        /\ Invokes(calls', "onSuccess") =>
               \E i \in 1..Len(pending) : DepositResolves(i)
        /\ Invokes(calls', "deposit") =>
               /\ NumsOf(calls', "deposit") = <<parseFloat(amount)>>
               /\ pending' = Append(pending, parseFloat(amount))
      ]_vars

\* C1, amended: a step in which a deposit resolves invokes the success
\* callback, when one is provided, exactly once with the numAmount its
\* submit parsed and passed to deposit, whether or not the component is
\* still mounted; it sets the success flag when the component is still
\* mounted and changes no state of a component that was discarded; no
\* other step invokes the success callback.
C1_SuccessCallbackAndFlagWhileMounted ==
    [][ /\ \A i \in 1..Len(pending) :
             DepositResolves(i) =>
                 /\ mounted => success'
                 /\ ~mounted => UNCHANGED <<amount, selectedMethodId,
                                            isProcessing, error, success>>
                 /\ NumsOf(calls', "onSuccess") =
                        IF onSuccess = "none" THEN <<>> ELSE <<pending[i]>>
        /\ Invokes(calls', "onSuccess") =>
               \E i \in 1..Len(pending) : DepositResolves(i)
        /\ Invokes(calls', "deposit") =>
               /\ NumsOf(calls', "deposit") = <<parseFloat(amount)>>
               /\ pending' = Append(pending, parseFloat(amount))
      ]_vars

\* The success callback has just been invoked with 25.5 and the confirmation
\* view is shown, while the amount text has become another one.
C1_Witness ==
    /\ mounted /\ success
    /\ NumsOf(calls, "onSuccess") = <<Decimal(255, 1)>>
    /\ amount = <<"1">>

---------------------------------------------------------------------------
(* C2 *)

\* C2: after every successful deposit the delayed reset eventually runs and
\* leaves the empty form view (amount text empty, success flag false); every
\* resolved deposit schedules exactly one reset, a reset is scheduled only
\* with the success flag set, and the reset invokes the close callback once
\* when one is provided.
C2_ResetAfterEverySuccess ==
    /\ success ~> (amount = <<>> /\ ~success)
    /\ [][ /\ \A i \in 1..Len(pending) :
                 DepositResolves(i) => timers' = timers + 1
           /\ (timers' > timers) => success'
           /\ TimerFires =>
                  NumsOf(calls', "onClose") = IF onClose THEN <<NaN>> ELSE <<>>
         ]_vars

---------------------------------------------------------------------------
(* C3 *)

\* C3: a step in which a deposit rejects sets the error message to the
\* failure's message, or to the generic fallback when the failure has none
\* (or an empty one), invokes no success callback, leaves the success flag
\* as it was, schedules no reset timer, and ends with the processing flag
\* false.
C3_RejectSetsError ==
    [][ \A i \in 1..Len(pending), failure \in Failures :
            DepositRejects(i, failure) =>
                /\ error' = IF failure.hasMessage /\ failure.message # ""
                             THEN failure.message ELSE DepositFailed
                /\ ~Invokes(calls', "onSuccess")
                /\ success' = success
                /\ timers' = timers
                /\ ~Invokes(calls', "setTimeout")
                /\ ~isProcessing'
      ]_vars

---------------------------------------------------------------------------
(* C4 *)

\* C4: a submit whose amount text does not parse to a number greater than
\* zero sets the error to InvalidAmount, does not invoke deposit, suspends no
\* handler, and ends with the processing flag and the success flag false.
C4_InvalidAmountAborts ==
    [][ (handleSubmit /\ ~ParsesPositive(amount)) =>
            /\ error' = InvalidAmount
            /\ ~Invokes(calls', "deposit")
            /\ pending' = pending
            /\ ~isProcessing'
            /\ ~success'
      ]_vars

\* A submit of the amount text "." (NaN) has ended with InvalidAmount.
C4_Witness ==
    /\ amount = <<".">>
    /\ error = InvalidAmount
    /\ ~isProcessing /\ ~success /\ pending = <<>>

---------------------------------------------------------------------------
(* C5 *)

\* C5 as claimed: with at least one payment method and none selected, a
\* submit ends with MethodRequired for every amount text, and never invokes
\* deposit.
C5_MethodRequiredForEveryAmount ==
    [][ (handleSubmit /\ Len(paymentMethods) > 0 /\ selectedMethodId = "") =>
            /\ error' = MethodRequired
            /\ ~Invokes(calls', "deposit")
      ]_vars

\* C5 as amended: with at least one payment method and none selected, a
\* submit ends with MethodRequired when the amount text parses to a number
\* greater than zero and with InvalidAmount otherwise, and never invokes
\* deposit.
C5_MethodRequiredForValidAmount ==
    [][ (handleSubmit /\ Len(paymentMethods) > 0 /\ selectedMethodId = "") =>
            /\ error' = IF ParsesPositive(amount)
                         THEN MethodRequired ELSE InvalidAmount
            /\ ~Invokes(calls', "deposit")
            /\ pending' = pending
      ]_vars

\* A submit with methods, none selected and a valid amount has ended with
\* MethodRequired.
C5_Witness ==
    /\ error = MethodRequired
    /\ Len(paymentMethods) > 0 /\ selectedMethodId = ""
    /\ ParsesPositive(amount)

---------------------------------------------------------------------------
(* C6 *)

\* C6: at most one deposit dispatched by the component is in flight, and a
\* submit arriving while the processing flag is true changes no state and
\* dispatches nothing.
C6_SubmitGuardedWhileProcessing ==
    [][ /\ Len(pending') <= 1
        /\ (isProcessing /\ handleSubmit) =>
               /\ UNCHANGED <<amount, selectedMethodId, isProcessing, error,
                              success, pending, timers>>
               /\ ~Invokes(calls', "deposit")
      ]_vars

---------------------------------------------------------------------------
(* C7 *)

\* C7: whenever no handleSubmit is suspended at its await, the processing
\* flag and the success flag are not both true.
C7_NotProcessingAndSuccess ==
    pending = <<>> => ~(isProcessing /\ success)

\* A deposit has resolved: confirmation view, nothing suspended, not
\* processing.
C7_Witness ==
    /\ success /\ ~isProcessing /\ pending = <<>>
    /\ Invokes(calls, "setTimeout")

---------------------------------------------------------------------------
(* C8 *)

\* Only digits and decimal points, at most one decimal point, at most two
\* digits after it.
ValidAmountText(s) ==
    /\ \A i \in 1..Len(s) : IsDigit(s[i]) \/ s[i] = "."
    /\ Cardinality({i \in 1..Len(s) : s[i] = "."}) <= 1
    /\ \A i \in 1..Len(s) : s[i] = "." => Len(s) - i <= 2

\* C8: after any sequence of amount changes with arbitrary raw inputs, and
\* any resets, the amount text holds only digits and at most one decimal
\* point with at most two digits after it; and a change event repeated with
\* the same raw input leaves the amount text as the first one left it.
C8_AmountTextValid ==
    /\ ValidAmountText(amount)
    /\ \A raw \in RawInputs :
          LET once == AmountAfterChange(amount, raw)
          IN  AmountAfterChange(once, raw) = once

\* An amount text with a decimal point and two digits after it has been
\* entered; a raw input with a third digit after the point, and one with a
\* stripped character and two points, both leave it as it is.
C8_Witness ==
    /\ Len(amount) = 4 /\ amount[2] = "."
    /\ \E raw \in RawInputs :
          /\ Len(SplitDot(StripNonNumeric(raw))) = 2
          /\ Len(SplitDot(StripNonNumeric(raw))[2]) = 3
          /\ AmountAfterChange(amount, raw) = amount
    /\ \E raw \in RawInputs :
          /\ StripNonNumeric(raw) # raw
          /\ Len(SplitDot(StripNonNumeric(raw))) = 3
          /\ AmountAfterChange(amount, raw) = amount

---------------------------------------------------------------------------
(* C9 *)

\* C9: in the form view the submit control is disabled whenever the
\* processing flag is true, or the amount text is empty, or the amount text
\* does not parse to a number greater than zero; and a submit through the
\* control happens only with an amount that parses to more than zero.
C9_SubmitDisabledUnlessPositive ==
    [][ /\ (FormRendered /\ (isProcessing \/ amount = <<>>
                              \/ ~ParsesPositive(amount))) =>
               SubmitDisabled(isProcessing, amount)
        /\ SubmitClick => ParsesPositive(amount)
      ]_vars

---------------------------------------------------------------------------
(* C10 *)

\* C10: when the method list at mount holds a method flagged as default, the
\* selected method id is that method's id until a method entry is clicked;
\* and a submit made before any such click, with an amount that parses to
\* more than zero, calls deposit with that id and sets no error.
C10_DefaultMethodPreselected ==
    [][ /\ (HasDefault /\ ~userSelected) => IsDefaultId(selectedMethodId)
        /\ (HasDefault /\ ~userSelected') => IsDefaultId(selectedMethodId')
        /\ (handleSubmit /\ HasDefault /\ ~userSelected
              /\ ParsesPositive(amount)) =>
               /\ \E i \in 1..Len(calls') :
                      /\ calls'[i].fn = "deposit"
                      /\ IsDefaultId(calls'[i].arg)
                      /\ calls'[i].num = parseFloat(amount)
               /\ error' = Null
      ]_vars

\* deposit(25.5, "m2") has just been called, m2 being the default of the
\* list and no method entry having been clicked.
C10_Witness ==
    /\ ~userSelected
    /\ calls = <<Call("deposit", Decimal(255, 1), "m2", 0)>>
    /\ IsDefaultId("m2")

---------------------------------------------------------------------------
(* C11 *)

\* C11: every submit clears the error message first: when it passes the
\* validations the error message is null after it, whatever an earlier
\* attempt had set, and when it fails one the error message is that
\* validation's; when an attempt ends at the settlement of its deposit the
\* error message is null or the message that attempt produced.
C11_ErrorClearedAtSubmit ==
    [][ /\ handleSubmit =>
               error' = IF ~ParsesPositive(amount) THEN InvalidAmount
                        ELSE IF selectedMethodId = "" /\ paymentMethods # <<>>
                             THEN MethodRequired
                        ELSE Null
        /\ \A i \in 1..Len(pending) :
               DepositResolves(i) =>
                   error' \in IF onSuccess = "throws"
                              THEN {Null, CallbackFailure.message} ELSE {Null}
        /\ \A i \in 1..Len(pending), failure \in Failures :
               DepositRejects(i, failure) =>
                   error' \in {Null, IF failure.hasMessage /\ failure.message # ""
                                     THEN failure.message ELSE DepositFailed}
      ]_vars

---------------------------------------------------------------------------
(* C12 *)

\* The raw input, once stripped, has more than one decimal point, or more
\* than two digits after its decimal point.
Rejected(raw) ==
    LET v      == StripNonNumeric(raw)
        points == {i \in 1..Len(v) : v[i] = "."}
    IN  \/ Cardinality(points) > 1
        \/ \E i \in points : Len(v) - i > 2

RejectedSamples == {raw \in RawSamples : Rejected(raw)}

\* C12: a change event whose raw input, once stripped, has more than one
\* decimal point or more than two digits after the point changes neither the
\* amount text nor any other field of the form state.
C12_RejectedInputIsNoOp ==
    [][ \A raw \in RejectedSamples :
            handleAmountChange(raw) =>
                UNCHANGED <<amount, selectedMethodId, isProcessing, error,
                            success, pending, timers>>
      ]_vars

\* "12.34" has been entered and the field is enabled, so that the input
\* "12.345" can arrive; and so can "1.2.3".
C12_Witness ==
    /\ amount = <<"1", "2", ".", "3", "4">>
    /\ AmountInputEnabled
    /\ Rejected(Append(amount, "5")) /\ Append(amount, "5") \in RawSamples
    /\ \E raw \in RawSamples :
          Rejected(raw) /\ Cardinality({i \in 1..Len(raw) : raw[i] = "."}) = 2

---------------------------------------------------------------------------
(* C13 *)

\* The steps in which handleSubmit returns from a failed validation.
AbortsAtValidation ==
    /\ handleSubmit
    /\ SubmitOutcome(amount, selectedMethodId, paymentMethods) # "deposit"

\* C13: the processing flag is true exactly while a deposit dispatched by
\* the component is in flight; it becomes true only in a submit that passes
\* both validations; it is false after the step in which a deposit settles
\* and after a submit that aborts at a validation; and, when every deposit
\* settles, it is eventually false after every submit.
C13_ProcessingExactlyWhileInFlight ==
    /\ [][ /\ isProcessing' <=> (pending' # <<>>)
           /\ (isProcessing' /\ ~isProcessing) =>
                  /\ handleSubmit
                  /\ SubmitOutcome(amount, selectedMethodId, paymentMethods)
                        = "deposit"
           /\ Settles => ~isProcessing'
           /\ AbortsAtValidation => ~isProcessing'
         ]_vars
    /\ isProcessing ~> ~isProcessing

---------------------------------------------------------------------------
(* C14 *)

\* The deposit calls made by the last step.
DepositCalls == {calls[i] : i \in {j \in 1..Len(calls) : calls[j].fn = "deposit"}}

\* C14: every step that invokes deposit passes a number greater than zero
\* and the method id selected at that submit; the id passed is empty only
\* when the list of payment methods is empty; and a submit with a valid
\* amount and an empty list invokes deposit with the empty id and raises no
\* MethodRequired.
C14_DepositArguments ==
    [][ /\ \A i \in 1..Len(calls') :
               calls'[i].fn = "deposit" =>
                   /\ handleSubmit
                   /\ ~isNaN(calls'[i].num) /\ calls'[i].num.m > 0
                   /\ calls'[i].num = parseFloat(amount)
                   /\ calls'[i].arg = selectedMethodId
                   /\ calls'[i].arg = "" => paymentMethods = <<>>
        /\ (handleSubmit /\ ParsesPositive(amount) /\ paymentMethods = <<>>) =>
               /\ calls' = <<Call("deposit", parseFloat(amount), "", 0)>>
               /\ error' = Null
      ]_vars

\* A deposit has just been dispatched with the empty method id.
C14_Witness ==
    /\ paymentMethods = <<>>
    /\ \E c \in DepositCalls : c.arg = "" /\ c.num = Decimal(255, 1)
    /\ error = Null

---------------------------------------------------------------------------
(* C15 *)

\* C15: teardown does not cancel a scheduled reset.  Discarding the
\* component leaves the scheduled resets scheduled; a reset that runs after
\* the component was discarded sets the amount text to empty and the
\* success flag to false and invokes the close callback when one was
\* supplied; and every reset scheduled on a discarded component does run.
C15_ResetSurvivesTeardown ==
    /\ [][ /\ Unmount => timers' = timers
           /\ (~mounted /\ timers' < timers) =>
                  /\ amount' = <<>>
                  /\ ~success'
                  /\ onClose => calls' = <<Call("onClose", NaN, "", 0)>>
         ]_vars
    /\ \A k \in 1..MaxOutstanding :
           (~mounted /\ timers = k) ~> (~mounted /\ timers < k)

\* C15, amended: teardown does not cancel a scheduled reset.  Discarding
\* the component leaves the scheduled resets scheduled; a reset that runs
\* after the component was discarded invokes the close callback when one
\* was supplied, and changes neither the amount text nor the success flag
\* of the discarded component; and every reset scheduled on a discarded
\* component does run.
C15_ResetRunsAfterTeardown ==
    /\ [][ /\ Unmount => timers' = timers
           /\ (~mounted /\ timers' < timers) =>
                  /\ UNCHANGED <<amount, selectedMethodId, isProcessing,
                                 error, success>>
                  /\ calls' = IF onClose THEN <<Call("onClose", NaN, "", 0)>>
                              ELSE <<>>
         ]_vars
    /\ \A k \in 1..MaxOutstanding :
           (~mounted /\ timers = k) ~> (~mounted /\ timers < k)

\* The reset has just run on a component discarded during its confirmation
\* view: the dialog was closed, the state of the component is as it was.
C15_Witness ==
    /\ ~mounted
    /\ calls = <<Call("onClose", NaN, "", 0)>>
    /\ amount = <<"2", "5", ".", "5">> /\ success
    /\ timers = 0 /\ pending = <<>>

---------------------------------------------------------------------------
(* C16 *)

\* C16: from the dispatch of a deposit until its reset has run, user input
\* does not change the amount text; the amount the confirmation view shows
\* when a deposit resolves is the amount that was passed to deposit; and
\* the reset clears no text typed after the dispatch.
C16_AmountFrozenUntilReset ==
    [][ /\ \A raw \in RawSamples :
               handleAmountChange(raw) => (pending = <<>> /\ timers = 0)
        /\ \A i \in 1..Len(pending) :
               DepositResolves(i) => parseFloat(amount') = pending[i]
        /\ (pending # <<>> \/ timers > 0) =>
               (amount' = amount \/ (timers' < timers /\ amount' = <<>>))
      ]_vars

---------------------------------------------------------------------------
(* C17 *)

\* C17: whenever the success flag is true and no handleSubmit is suspended
\* at its await, exactly one reset is scheduled, and so the confirmation
\* view is always eventually left, whatever the success callback does.
C17_OneResetWhileSuccess ==
    /\ [](success /\ pending = <<>> => timers = 1)
    /\ success ~> ~success

---------------------------------------------------------------------------
(* C18 *)

\* The messages a rejection of deposit can leave in the error state.
RejectionMessages == {ErrorMessage(failure) : failure \in Failures}

\* C18: the success flag and a non-null error never hold together; the
\* error is null, InvalidAmount, MethodRequired or the message of a
\* rejection; and it becomes non-null only in a submit that aborts at a
\* validation or when the deposit of the most recent submit rejects.
C18_ErrorExcludesSuccess ==
    /\ [](~(success /\ error # Null))
    /\ [](error \in {Null, InvalidAmount, MethodRequired} \cup RejectionMessages)
    /\ [][ (error' # error /\ error' # Null) =>
               \/ AbortsAtValidation
               \/ /\ pending # <<>>
                  /\ \E failure \in Failures :
                         DepositRejects(Len(pending), failure)
         ]_vars

=============================================================================
